---------------------------- MODULE Spec2Model ----------------------------
(***************************************************************************)
(* A model of midi-watch: the five MIDI transformation operators           *)
(* (transformers.py), the rule pipeline (pipeline.py), the change-aware    *)
(* writer (main.py: process_file) and the debounced watcher (watcher.py).  *)
(*                                                                         *)
(* A mido message is a record; a track is a sequence of messages; a file   *)
(* is a record of ticks_per_beat and a sequence of tracks.  A python dict  *)
(* is a function whose DOMAIN is the set of its keys.  A python exception  *)
(* leaving a function is the value Raise(name).                            *)
(***************************************************************************)
EXTENDS Integers, Sequences, FiniteSets, TLC

VARIABLES
    midi,        \* the input file handed to an operator (pure specifications)
    file_path,   \* the path handed to process_midi (pure specifications)
    config,      \* the loaded Config
    applied,     \* which operator produced `result` ("" before any ran)
    result,      \* the operator's return value
    now,         \* the filesystem clock, in seconds
    files,       \* the filesystem: path -> [exists, data, mtime]
    events,      \* paths with a notification not yet handed to on_modified
    pending,     \* DebouncedHandler.pending: path -> timer
    processed_files, \* DebouncedHandler.processed_files: path -> <<hash, mtime>>
    lock,        \* DebouncedHandler.lock: 0 when free, else the holding timer
    timers,      \* the threading.Timer threads: timer -> its state
    unprocessed  \* history: paths whose last external edit no callback saw

pureVars == <<midi, file_path, config, applied, result>>

watchVars ==
    <<now, files, events, pending, processed_files, lock, timers, unprocessed>>

vars == <<pureVars, watchVars>>

\* ------------------------------------------------------------------ bounds

\* The size of the largest input file: its messages plus its tracks after
\* the first.
MaxLen == 4

\* ----------------------------------------------------------------- helpers

\* None, for the optional integers of the code (an absolute time is >= 0).
None == -1

Raise(name) == [raised |-> name]

\* v is a file or Raise(name): both are records.
IsRaised(v) == "raised" \in DOMAIN v

Max(a, b) == IF a >= b THEN a ELSE b

Min(a, b) == IF a <= b THEN a ELSE b

Abs(a) == IF a >= 0 THEN a ELSE -a

\* d[k] = v on a python dict.
Put(d, k, v) == [x \in DOMAIN d \cup {k} |-> IF x = k THEN v ELSE d[x]]

\* d.get(k, default)
Get(d, k, default) == IF k \in DOMAIN d THEN d[k] ELSE default

EmptyDict == << >>

\* ----------------------------------------------------------- mido messages

\* mido.Message(type, channel=, note=, velocity=, time=)
Message(type, channel, note, velocity, time) ==
    [type |-> type, channel |-> channel, note |-> note, velocity |-> velocity,
     time |-> time, name |-> ""]

\* mido.MetaMessage(type, name=, time=); also stands for a channel message
\* that is not a note (control_change), which the operators never open.
MetaMessage(type, name, time) ==
    [type |-> type, channel |-> 0, note |-> 0, velocity |-> 0,
     time |-> time, name |-> name]

\* msg.copy(time=t)
CopyTime(msg, t) == [msg EXCEPT !.time = t]

IsNote(msg) == msg.type \in {"note_on", "note_off"}

\* mido.MidiFile(ticks_per_beat=...) with .tracks set
MidiFile(ticks_per_beat, tracks) ==
    [ticks_per_beat |-> ticks_per_beat, tracks |-> tracks]

\* The absolute tick of each message of a track: the sum of the delta times
\* up to and including it.
RECURSIVE AbsTimes(_)
AbsTimes(track) ==
    IF track = << >> THEN << >>
    ELSE LET front == AbsTimes(SubSeq(track, 1, Len(track) - 1))
             prev == IF front = << >> THEN 0 ELSE front[Len(front)]
         IN Append(front, prev + track[Len(track)].time)

\* ------------------------------------------------------- transformers.py

\* strip_to_notes: line 19-24, the keep decision.
StripKeeps(msg, keep_meta_subtypes) ==
    \/ msg.type \in {"note_on", "note_off"}
    \/ msg.type = "end_of_track"
    \/ msg.type \in keep_meta_subtypes

\* A strip_to_notes that forgets the time of the dropped messages.
StripTimeNoAccumulate(accumulated_time, msg) == msg.time

\* strip_to_notes: the time a retained message gets (line 33, 37).
StripTime(accumulated_time, msg) == accumulated_time

\* strip_to_notes: the loop over one track (lines 13-39).
RECURSIVE StripLoop(_, _, _, _, _)
StripLoop(track, keep_meta_subtypes, i, accumulated_time, new_track) ==
    IF i > Len(track) THEN new_track
    ELSE LET msg == track[i]
             acc == accumulated_time + msg.time
         IN IF StripKeeps(msg, keep_meta_subtypes)
            THEN LET new_msg ==
                        IF IsNote(msg)
                        THEN Message(msg.type, msg.channel, msg.note,
                                     msg.velocity, StripTime(acc, msg))
                        ELSE CopyTime(msg, StripTime(acc, msg))
                 IN StripLoop(track, keep_meta_subtypes, i + 1, 0,
                              Append(new_track, new_msg))
            ELSE StripLoop(track, keep_meta_subtypes, i + 1, acc, new_track)

strip_to_notes(m, keep_meta_subtypes) ==
    MidiFile(m.ticks_per_beat,
             [t \in 1..Len(m.tracks) |->
                 StripLoop(m.tracks[t], keep_meta_subtypes, 1, 0, << >>)])

\* transpose_notes: line 56.
\* A clamp that forgets the lower end of the range.
ClampAboveOnly(n) == Min(127, n)

Clamp(n) == Max(0, Min(127, n))

transpose_notes(m, semitones) ==
    MidiFile(m.ticks_per_beat,
             [t \in 1..Len(m.tracks) |->
                 [i \in 1..Len(m.tracks[t]) |->
                     LET msg == m.tracks[t][i]
                     IN IF IsNote(msg)
                        THEN Message(msg.type, msg.channel,
                                     Clamp(msg.note + semitones),
                                     msg.velocity, msg.time)
                        ELSE msg]])

\* force_channel_zero: lines 160-182.
force_channel_zero(m) ==
    MidiFile(m.ticks_per_beat,
             [t \in 1..Len(m.tracks) |->
                 [i \in 1..Len(m.tracks[t]) |->
                     LET msg == m.tracks[t][i]
                     IN IF IsNote(msg)
                        THEN Message(msg.type, 0, msg.note, msg.velocity,
                                     msg.time)
                        ELSE msg]])


\* cap_note_lengths: line 99 and line 105, 123.
IsStart(msg) == msg.type = "note_on" /\ msg.velocity > 0

IsTerminator(msg) ==
    msg.type = "note_off" \/ (msg.type = "note_on" /\ msg.velocity = 0)

\* cap_note_lengths: lines 87-91, (abs_time, orig_idx, msg) of every message.
AbsEvents(track) ==
    LET at == AbsTimes(track)
    IN [i \in 1..Len(track) |-> <<at[i], i, track[i]>>]

\* cap_note_lengths: the key of note_pairs (lines 95, 104, 109, 117, 127).
PairKey(note, channel, on_time) == <<note, channel, on_time>>

\* cap_note_lengths: the matching loop (lines 94-110) from event i on;
\* st holds the three dicts note_stacks, note_pairs, note_off_to_on.
RECURSIVE MatchLoop(_, _, _)
MatchLoop(abs_events, i, st) ==
    IF i > Len(abs_events) THEN st
    ELSE LET abs_time == abs_events[i][1]
             orig_idx == abs_events[i][2]
             msg == abs_events[i][3]
             key == <<msg.note, msg.channel>>
         IN IF IsStart(msg)
            THEN MatchLoop(abs_events, i + 1,
                    [st EXCEPT
                       !.note_stacks =
                           Put(@, key, Append(Get(@, key, << >>), abs_time)),
                       !.note_pairs =
                           Put(@, PairKey(msg.note, msg.channel, abs_time),
                               None)])
            ELSE IF IsTerminator(msg)
                    /\ key \in DOMAIN st.note_stacks
                    /\ st.note_stacks[key] # << >>
            THEN LET stack == st.note_stacks[key]
                     on_time == stack[Len(stack)]
                 IN MatchLoop(abs_events, i + 1,
                       [st EXCEPT
                          !.note_stacks =
                              Put(@, key, SubSeq(stack, 1, Len(stack) - 1)),
                          !.note_pairs =
                              Put(@, PairKey(msg.note, msg.channel, on_time),
                                  abs_time),
                          !.note_off_to_on =
                              Put(@, <<abs_time, orig_idx>>, on_time)])
            ELSE MatchLoop(abs_events, i + 1, st)

\* cap_note_lengths: lines 113-117, the off time of one pair after capping.
CappedOff(on_time, off_time, max_len_ticks) ==
    IF off_time # None /\ off_time - on_time > max_len_ticks
    THEN on_time + max_len_ticks
    ELSE off_time

\* cap_note_lengths: lines 113-117 over the whole dict.
CapPairs(note_pairs, max_len_ticks) ==
    [k \in DOMAIN note_pairs |->
        CappedOff(k[3], note_pairs[k], max_len_ticks)]

\* cap_note_lengths: line 130, the message put in place of a moved terminator.
MovedTerminator(msg) == Message("note_off", msg.channel, msg.note, 0, 0)

\* cap_note_lengths: lines 122-138, one entry of adjusted_events.
Adjusted(ev, note_pairs, note_off_to_on) ==
    LET abs_time == ev[1]
        orig_idx == ev[2]
        msg == ev[3]
    IN IF IsTerminator(msg) /\ <<abs_time, orig_idx>> \in DOMAIN note_off_to_on
       THEN LET on_time == note_off_to_on[<<abs_time, orig_idx>>]
                new_off_time ==
                    Get(note_pairs, PairKey(msg.note, msg.channel, on_time),
                        abs_time)
            IN IF new_off_time # abs_time
               THEN <<new_off_time, orig_idx, MovedTerminator(msg)>>
               ELSE ev
       ELSE ev

\* A sort that looks at the original index alone.
SortsByIndex(a, b) == a[2] < b[2]

\* cap_note_lengths: line 141, the sort key order (x[0], x[1]).
SortsBefore(a, b) == a[1] < b[1] \/ (a[1] = b[1] /\ a[2] < b[2])

\* list.sort by that key; orig_idx is unique, so the order is total.
SortEvents(adjusted) ==
    LET n == Len(adjusted)
        rank(i) == Cardinality({j \in 1..n : SortsBefore(adjusted[j], adjusted[i])})
    IN [k \in 1..n |-> adjusted[CHOOSE i \in 1..n : rank(i) = k - 1]]

\* cap_note_lengths: lines 144-151, back to delta times.
ToDeltas(sorted) ==
    [k \in 1..Len(sorted) |->
        CopyTime(sorted[k][3],
                 sorted[k][1] - (IF k = 1 THEN 0 ELSE sorted[k - 1][1]))]

\* cap_note_lengths: lines 86-141 of one track: adjusted_events, sorted.
SortedAdjusted(track, max_len_ticks) ==
    LET abs_events == AbsEvents(track)
        st == MatchLoop(abs_events, 1,
                 [note_stacks |-> EmptyDict, note_pairs |-> EmptyDict,
                  note_off_to_on |-> EmptyDict])
        note_pairs == CapPairs(st.note_pairs, max_len_ticks)
    IN SortEvents([i \in 1..Len(abs_events) |->
                      Adjusted(abs_events[i], note_pairs, st.note_off_to_on)])

\* cap_note_lengths: one track (lines 84-153), as [raised, track].  An
\* adjusted time of None (note_pairs reset by a later note_on at the same
\* key) makes the sort compare None with an int: TypeError.
CapTrack(track, max_len_ticks) ==
    LET adjusted_events == SortedAdjusted(track, max_len_ticks)
    IN IF \E i \in 1..Len(adjusted_events) : adjusted_events[i][1] = None
       THEN [raised |-> "TypeError", track |-> << >>]
       ELSE [raised |-> "", track |-> ToDeltas(adjusted_events)]

\* cap_note_lengths: line 80.
MaxLenTicks(ticks_per_beat) == ticks_per_beat \div 2

cap_note_lengths(m, max_note_fraction) ==
    IF max_note_fraction # "1/8" THEN Raise("ValueError")
    ELSE LET new_tracks ==
                [t \in 1..Len(m.tracks) |->
                    CapTrack(m.tracks[t], MaxLenTicks(m.ticks_per_beat))]
         IN IF \E t \in 1..Len(new_tracks) : new_tracks[t].raised # ""
            THEN Raise("TypeError")
            ELSE MidiFile(m.ticks_per_beat,
                          [t \in 1..Len(new_tracks) |-> new_tracks[t].track])

\* set_track_names: one track (lines 190-217).
SetTrackName(track, track_name) ==
    LET new_track ==
            [i \in 1..Len(track) |->
                IF track[i].type = "track_name"
                THEN MetaMessage("track_name", track_name, track[i].time)
                ELSE track[i]]
        track_name_set == \E i \in 1..Len(track) : track[i].type = "track_name"
    IN IF track_name_set THEN new_track
       ELSE IF Len(new_track) = 0
       THEN <<MetaMessage("track_name", track_name, 0)>>
       ELSE LET first_msg == new_track[1]
            IN IF first_msg.time = 0
               THEN <<MetaMessage("track_name", track_name, 0)>> \o new_track
               ELSE <<MetaMessage("track_name", track_name, first_msg.time),
                      CopyTime(first_msg, 0)>>
                    \o SubSeq(new_track, 2, Len(new_track))

set_track_names(m, track_name) ==
    MidiFile(m.ticks_per_beat,
             [t \in 1..Len(m.tracks) |-> SetTrackName(m.tracks[t], track_name)])

\* set_track_names lines 200, 209, 217: new_track holds the input's own
\* message objects, so first_msg.time = 0 writes into the input track.  The
\* input track as the call leaves it.
SetTrackNameInput(track, track_name) ==
    LET track_name_set == \E i \in 1..Len(track) : track[i].type = "track_name"
    IN IF ~track_name_set /\ Len(track) > 0 /\ track[1].time # 0
       THEN [track EXCEPT ![1] = CopyTime(@, 0)]
       ELSE track

\* The input file as set_track_names leaves it.
SetTrackNamesInput(m, track_name) ==
    MidiFile(m.ticks_per_beat,
             [t \in 1..Len(m.tracks) |->
                 SetTrackNameInput(m.tracks[t], track_name)])

\* ------------------------------------------------------------ pipeline.py

\* A path or a keyword is a sequence of one-character strings.
\* str.lower() on the letters the model's paths use.
LowerOf == [B |-> "b", D |-> "d", M |-> "m"]

Lower(str) ==
    [i \in 1..Len(str) |->
        IF str[i] \in DOMAIN LowerOf THEN LowerOf[str[i]] ELSE str[i]]

\* os.path.basename
Basename(path) ==
    LET slashes == {i \in 1..Len(path) : path[i] = "/"}
        last == IF slashes = {} THEN 0
                ELSE CHOOSE i \in slashes : \A j \in slashes : j <= i
    IN SubSeq(path, last + 1, Len(path))

\* keyword in str
Contains(keyword, str) ==
    \E i \in 1..(Len(str) - Len(keyword) + 1) :
        SubSeq(str, i, i + Len(keyword) - 1) = keyword

\* any(keyword in filename_lower for keyword in keywords)
AnyContains(keywords, str) == \E k \in keywords : Contains(k, str)

\* process_midi: line 24-25.
BassMatch(path, cfg) ==
    AnyContains(cfg.rules.bass.filename_contains, Lower(Basename(path)))

DrumsMatch(path, cfg) ==
    AnyContains(cfg.rules.drums.filename_contains, Lower(Basename(path)))

\* process_midi: lines 19-21.
StripStep(m, cfg) ==
    IF cfg.global_.strip_to_notes
    THEN strip_to_notes(m, cfg.global_.strip_keep_meta)
    ELSE m

\* process_midi: lines 28-32.
BassBranch(m, path, cfg) ==
    IF BassMatch(path, cfg)
    THEN LET t == { transpose_notes(m, cfg.rules.bass.transpose_semitones) }
         IN CHOOSE r \in { IF cfg.rules.bass.track_name # ""
                           THEN set_track_names(x, cfg.rules.bass.track_name)
                           ELSE x : x \in t } : TRUE
    ELSE m

\* process_midi: line 35, whether the drums branch runs.
DrumsRuns(path, cfg) == DrumsMatch(path, cfg)

\* process_midi: lines 35-39.
DrumsBranch(m, path, cfg) ==
    IF DrumsRuns(path, cfg)
    THEN LET c == { cap_note_lengths(m, cfg.rules.drums.max_note_length) }
         IN CHOOSE r \in { IF ~IsRaised(x) /\ cfg.rules.drums.track_name # ""
                           THEN set_track_names(x, cfg.rules.drums.track_name)
                           ELSE x : x \in c } : TRUE
    ELSE m

\* process_midi: lines 42-48.  wildcard is << >> (None) or <<rule>>; its
\* transpose_semitones is << >> (None) or <<n>>.
WildcardBranch(m, path, cfg) ==
    IF ~BassMatch(path, cfg) /\ ~DrumsMatch(path, cfg)
       /\ cfg.rules.wildcard # << >>
    THEN LET w == cfg.rules.wildcard[1]
             T(x) == IF w.transpose_semitones # << >>
                     THEN transpose_notes(x, w.transpose_semitones[1])
                     ELSE x
             N(x) == IF w.track_name # ""
                     THEN set_track_names(x, w.track_name)
                     ELSE x
             C(x) == IF w.max_note_length # ""
                     THEN cap_note_lengths(x, w.max_note_length)
                     ELSE x
         IN CHOOSE r \in { C(y) : y \in { N(x) : x \in { T(m) } } } : TRUE
    ELSE m

\* process_midi: lines 51-52.
ForceStep(m, cfg) ==
    IF cfg.global_.force_channel_zero THEN force_channel_zero(m) ELSE m

\* An exception raised by a step (cap_note_lengths) ends the call.
process_midi(m, path, cfg) ==
    LET s1 == { StripStep(m, cfg) }
        s2 == { BassBranch(x, path, cfg) : x \in s1 }
        s3 == { IF IsRaised(x) THEN x ELSE DrumsBranch(x, path, cfg) :
                   x \in s2 }
        s4 == { IF IsRaised(x) THEN x ELSE WildcardBranch(x, path, cfg) :
                   x \in s3 }
        s5 == { IF IsRaised(x) THEN x ELSE ForceStep(x, cfg) : x \in s4 }
    IN CHOOSE x \in s5 : TRUE

\* ------------------------------------------- inputs of the pure operators

\* The file names of the model.
PathBass == <<"b", "a", "s", "s", ".", "m", "i", "d">>

PathDrums == <<"d", "r", "u", "m", ".", "m", "i", "d">>

PathBoth == <<"B", "a", "s", "s", "D", "r", "u", "m", ".", "m", "i", "d">>

PathOther == <<"b", "a", "s", "s", "/", "p", "a", "d", ".", "m", "i", "d">>

KeywordBass == <<"b", "a", "s", "s">>

KeywordDrums == <<"d", "r", "u", "m">>

\* Config.from_dict (config_loader.py): a Config with the given settings.
\* The arguments: strip_to_notes, force_channel_zero, strip_keep_meta,
\* bass.transpose_semitones, bass.track_name, drums.max_note_length,
\* drums.track_name, wildcard.
MakeConfig(strip, force, keep, semi, bname, maxlen, dname, wildcard) ==
    [global_ |-> [strip_to_notes |-> strip, force_channel_zero |-> force,
                  strip_keep_meta |-> keep],
     rules |-> [bass |-> [filename_contains |-> {KeywordBass},
                          transpose_semitones |-> semi,
                          track_name |-> bname],
                drums |-> [filename_contains |-> {KeywordDrums},
                           max_note_length |-> maxlen,
                           track_name |-> dname],
                wildcard |-> wildcard]]

\* config_loader.py line 88-92
WildcardRule(transpose_semitones, track_name, max_note_length) ==
    [transpose_semitones |-> transpose_semitones, track_name |-> track_name,
     max_note_length |-> max_note_length]

\* An input with one empty track, at 480 ticks per beat.
EmptyFile == MidiFile(480, << << >> >>)

NotRun == Raise("not run")

\* ------------------------------------------------------------ midi_io.py

\* What a path holds when nothing is there.
NoData == [nodata |-> TRUE]

\* The bytes of a file cut short (a writer has not finished, or never will).
Truncated == [truncated |-> TRUE]

\* A path with no file.
NoFile == [exists |-> FALSE, data |-> NoData, mtime |-> 0]

\* get_file_hash: the SHA-256 of the bytes (an injective image of them), or
\* None when the file cannot be opened.
NoneHash == [none |-> TRUE]

get_file_hash(f) == IF f.exists THEN [sha |-> f.data] ELSE NoneHash

\* get_file_mtime: os.path.getmtime, or 0.0 when it fails.
get_file_mtime(f) == IF f.exists THEN f.mtime ELSE 0

\* read_midi_with_retry line 12-15: mido.MidiFile(path) parses the bytes.
Readable(f) == f.exists /\ "tracks" \in DOMAIN f.data

\* read_midi_with_retry: max_retries
MaxReadRetries == 5

\* mido's fix_end_of_track, which MidiFile.save applies to every track: the
\* end_of_track messages are removed, their time going to the next message,
\* and one end_of_track closes the track.
RECURSIVE FixEndOfTrack(_, _, _)
FixEndOfTrack(track, i, accum) ==
    IF i > Len(track) THEN <<MetaMessage("end_of_track", "", accum)>>
    ELSE IF track[i].type = "end_of_track"
    THEN FixEndOfTrack(track, i + 1, accum + track[i].time)
    ELSE <<CopyTime(track[i], accum + track[i].time)>>
         \o FixEndOfTrack(track, i + 1, 0)

\* processed_midi.save(tmp_path): the bytes written.
Save(m) ==
    MidiFile(m.ticks_per_beat,
             [t \in 1..Len(m.tracks) |-> FixEndOfTrack(m.tracks[t], 1, 0)])

\* ---------------------------------------------------- the watched directory

\* The watched paths.
Paths == {PathBass}

\* The configuration the watcher runs with: strip, force channel zero, the
\* bass rule an octave down.
WatchConfig == MakeConfig(TRUE, TRUE, {}, -12, "", "1/8", "", << >>)

\* A one-note file, as a writer saves it.
NoteFile(channel, note) ==
    MidiFile(480, << <<Message("note_on", channel, note, 64, 0),
                       MetaMessage("end_of_track", "", 0)>> >>)

\* What an external writer leaves at a path: two files the pipeline changes
\* (to NoteFile(0, 0), which it leaves alone) and a file cut short.
ExternalData == {NoteFile(0, 12), NoteFile(1, 0), Truncated}

\* The last second of the clock.
MaxTime == 2

\* The most timers the handler starts.
MaxTimers == 2

Timers == 1..MaxTimers

\* ------------------------------------------------------------- watcher.py

\* should_process line 31: the recency window, in seconds.
RecencyWindow == 2

\* main.py line 52
MaxReplaceRetries == 3

\* A timer thread not started yet.
UnusedTimer ==
    [pc |-> "unused", path |-> << >>, cancelled |-> FALSE,
     cur_hash |-> NoneHash, midi |-> NoData, original_hash |-> NoneHash,
     tmp |-> NoFile, attempt |-> 0, outcome |-> ""]

\* The steps of process_file and of mark_processed under it.
CallbackPcs ==
    {"cb_read", "cb_hash", "cb_save", "cb_replace", "mp_hash", "mp_store"}

\* The steps of _process_file after the timer has fired.
ActingPcs == {"pf_clear", "pf_exists", "sp_hash", "sp_decide"} \cup CallbackPcs

\* del d[k]
Del(d, k) == [x \in DOMAIN d \ {k} |-> d[x]]

\* The state after Watcher.start(): the initial scan has left the processed
\* file; nothing is pending.
WatchInit ==
    /\ now = 0
    /\ files = [p \in Paths |->
                  [exists |-> TRUE, data |-> NoteFile(0, 0), mtime |-> 0]]
    /\ events = {}
    /\ pending = EmptyDict
    /\ processed_files = EmptyDict
    /\ lock = 0
    /\ timers = [t \in Timers |-> UnusedTimer]
    /\ unprocessed = {}

\* A lock that lets a thread in while another one holds it.
AcquirableAlways(holder) == TRUE

\* threading.Lock (watcher.py line 18), entered by "with self.lock" (lines
\* 24, 42, 55, 70): a thread gets in when no thread holds it, and waits
\* otherwise.  holder is the thread inside, 0 for none.
Acquirable(holder) == holder = 0

\* A "with self.lock" block that returns with the lock still held.
StillHeld(t) == t

\* The end of a "with self.lock" block (watcher.py lines 32, 36, 43): thread
\* t lets go of the lock; the value is the holder afterwards.
Released(t) == 0

\* The clock advances.
Tick ==
    /\ now < MaxTime
    /\ now' = now + 1
    /\ UNCHANGED <<files, events, pending, processed_files, lock, timers,
                   unprocessed, pureVars>>

\* Whether a write of these bytes is an edit the watch state has not seen.
DiffersFromRecorded(p, f) ==
    p \notin DOMAIN processed_files \/ get_file_hash(f) # processed_files[p][1]

\* Another program writes a path and the observer queues the notification.
ExternalWrite(p) ==
    \E data \in ExternalData :
       LET f == [exists |-> TRUE, data |-> data, mtime |-> now]
       IN /\ files' = [files EXCEPT ![p] = f]
          /\ events' = events \cup {p}
          /\ unprocessed' = IF DiffersFromRecorded(p, f)
                            THEN unprocessed \cup {p}
                            ELSE unprocessed \ {p}
          /\ UNCHANGED <<now, pending, processed_files, lock, timers, pureVars>>

\* Another program removes a path (no create/modify notification).
ExternalDelete(p) ==
    /\ files[p].exists
    /\ files' = [files EXCEPT ![p] = NoFile]
    /\ unprocessed' = unprocessed \ {p}
    /\ UNCHANGED <<now, events, pending, processed_files, lock, timers,
                   pureVars>>

\* on_modified line 51: the extension test.
IsMidiPath(path) ==
    LET lower == Lower(path)
        n == Len(lower)
    IN \/ n >= 4 /\ SubSeq(lower, n - 3, n) = <<".", "m", "i", "d">>
       \/ n >= 5 /\ SubSeq(lower, n - 4, n) = <<".", "m", "i", "d", "i">>

\* on_modified / on_created (lines 45-66), under the lock: cancel the
\* path's pending timer, start a new one.
on_modified(p) ==
    /\ p \in events
    /\ Acquirable(lock)
    /\ events' = events \ {p}
    /\ IF ~IsMidiPath(p)
       THEN UNCHANGED <<pending, timers>>
       ELSE \E t \in Timers :
               /\ timers[t].pc = "unused"
               /\ \A u \in Timers : u < t => timers[u].pc # "unused"
               /\ pending' = Put(pending, p, t)
               /\ timers' =
                     [u \in Timers |->
                        IF u = t
                        THEN [UnusedTimer EXCEPT !.pc = "waiting", !.path = p]
                        ELSE IF p \in DOMAIN pending /\ u = pending[p]
                        THEN [timers[u] EXCEPT !.cancelled = TRUE]
                        ELSE timers[u]]
    /\ UNCHANGED <<now, files, processed_files, lock, unprocessed, pureVars>>

\* threading.Timer.run: the interval has passed and cancel() has not been
\* called: the timer calls _process_file.
Fire(t) ==
    /\ timers[t].pc = "waiting"
    /\ ~timers[t].cancelled
    /\ timers' = [timers EXCEPT ![t].pc = "pf_clear"]
    /\ UNCHANGED <<now, files, events, pending, processed_files, lock,
                   unprocessed, pureVars>>

\* A _process_file that leaves its entry in pending.
KeptPending(t, path) == pending

\* _process_file lines 70-72: the pending entry to delete.
ClearedPending(t, path) == Del(pending, path)

\* _process_file lines 70-72, under the lock.
PfClearPending(t) ==
    /\ timers[t].pc = "pf_clear"
    /\ Acquirable(lock)
    /\ pending' = ClearedPending(t, timers[t].path)
    /\ timers' = [timers EXCEPT ![t].pc = "pf_exists"]
    /\ UNCHANGED <<now, files, events, processed_files, lock, unprocessed,
                   pureVars>>

\* A timer thread ends with this outcome; its locals are gone.
Finish(tm, outcome) ==
    [UnusedTimer EXCEPT !.pc = "done", !.path = tm.path,
                        !.cancelled = tm.cancelled, !.outcome = outcome]

\* A retry loop that goes round once more than its limit.
RetryOnceMore(attempt, max_retries) == attempt < max_retries

\* main.py line 61, midi_io.py line 18: after a failed attempt (numbered from
\* 0) the loop tries again unless it was the last one.
RetryAgain(attempt, max_retries) == attempt < max_retries - 1

\* _process_file line 74: os.path.exists(file_path).
PfExists(t) ==
    /\ timers[t].pc = "pf_exists"
    /\ timers' = [timers EXCEPT ![t] =
                     IF files[@.path].exists THEN [@ EXCEPT !.pc = "sp_hash"]
                     ELSE Finish(@, "missing")]
    /\ UNCHANGED <<now, files, events, pending, processed_files, lock,
                   unprocessed, pureVars>>

\* should_process lines 24-25: take the lock, hash the file.
SpReadHash(t) ==
    /\ timers[t].pc = "sp_hash"
    /\ Acquirable(lock)
    /\ lock' = t
    /\ timers' = [timers EXCEPT ![t].pc = "sp_decide",
                                ![t].cur_hash =
                                   get_file_hash(files[timers[t].path])]
    /\ UNCHANGED <<now, files, events, pending, processed_files, unprocessed,
                   pureVars>>

\* A should_process that takes only an untouched file for its own write.
SuppressesEqualMtime(current_hash, current_mtime, prev_hash, prev_mtime) ==
    current_hash = prev_hash /\ current_mtime = prev_mtime

\* should_process line 31: the test that suppresses a self-write.
Suppresses(current_hash, current_mtime, prev_hash, prev_mtime) ==
    current_hash = prev_hash /\ (current_mtime - prev_mtime) < RecencyWindow

\* should_process lines 26-36: read the mtime, decide, record, release the
\* lock; _process_file line 75 then calls the callback.
SpDecide(t) ==
    /\ timers[t].pc = "sp_decide"
    /\ lock = t
    /\ lock' = Released(t)
    /\ LET path == timers[t].path
           current_hash == timers[t].cur_hash
           current_mtime == get_file_mtime(files[path])
       IN IF /\ path \in DOMAIN processed_files
             /\ Suppresses(current_hash, current_mtime,
                           processed_files[path][1], processed_files[path][2])
          THEN /\ timers' = [timers EXCEPT ![t] = Finish(@, "suppressed")]
               /\ UNCHANGED <<processed_files, unprocessed>>
          ELSE /\ processed_files' =
                     Put(processed_files, path, <<current_hash, current_mtime>>)
               /\ timers' = [timers EXCEPT ![t].pc = "cb_read",
                                           ![t].cur_hash = NoneHash]
               /\ unprocessed' = unprocessed \ {path}
    /\ UNCHANGED <<now, files, events, pending, pureVars>>

\* ---------------------------------------------------------------- main.py

\* process_file line 15 (read_midi_with_retry lines 11-23): one attempt to
\* read the file; after max_retries failures the file is skipped.
CbRead(t) ==
    /\ timers[t].pc = "cb_read"
    /\ LET path == timers[t].path
       IN /\ timers' = [timers EXCEPT ![t] =
                IF Readable(files[path])
                THEN [@ EXCEPT !.pc = "cb_hash", !.midi = files[path].data,
                               !.attempt = 0]
                ELSE IF RetryAgain(@.attempt, MaxReadRetries)
                THEN [@ EXCEPT !.attempt = @ + 1]
                ELSE Finish(@, "skipped")]
          /\ unprocessed' = IF Readable(files[path])
                            THEN unprocessed \ {path}
                            ELSE unprocessed
    /\ UNCHANGED <<now, files, events, pending, processed_files, lock, pureVars>>

\* process_file lines 15, 77-79: mido raises an exception that
\* read_midi_with_retry does not catch (EOFError on a file cut short); the
\* call ends at once.
CbReadRaises(t) ==
    /\ timers[t].pc = "cb_read"
    /\ files[timers[t].path].exists
    /\ ~Readable(files[timers[t].path])
    /\ timers' = [timers EXCEPT ![t] = Finish(@, "error")]
    /\ UNCHANGED <<now, files, events, pending, processed_files, lock,
                   unprocessed, pureVars>>

\* process_file lines 21-34: hash the file as it is now, run the pipeline,
\* create the (empty) scratch file.  An exception of the pipeline ends the
\* call (line 77).
CbHash(t) ==
    /\ timers[t].pc = "cb_hash"
    /\ \E path \in {timers[t].path} :
       \E processed_midi \in {process_midi(timers[t].midi, path, config)} :
          timers' = [timers EXCEPT ![t] =
             IF IsRaised(processed_midi)
             THEN Finish(@, "error")
             ELSE [@ EXCEPT !.pc = "cb_save",
                            !.original_hash = get_file_hash(files[path]),
                            !.midi = processed_midi,
                            !.tmp = [exists |-> TRUE, data |-> Truncated,
                                     mtime |-> now]]]
    /\ UNCHANGED <<now, files, events, pending, processed_files, lock,
                   unprocessed, pureVars>>

\* process_file line 46: the no-op test.
SameContent(new_hash, original_hash) == new_hash = original_hash

\* process_file lines 39-49: save to the scratch file, hash it, and on equal
\* hashes remove it and report no change.
CbSaveOk(t) ==
    /\ timers[t].pc = "cb_save"
    /\ LET saved == [exists |-> TRUE, data |-> Save(timers[t].midi),
                     mtime |-> now]
           new_hash == get_file_hash(saved)
       IN timers' = [timers EXCEPT ![t] =
             IF SameContent(new_hash, @.original_hash)
             THEN Finish(@, "noop")
             ELSE [@ EXCEPT !.pc = "cb_replace", !.tmp = saved,
                            !.midi = NoData, !.original_hash = NoneHash]]
    /\ UNCHANGED <<now, files, events, pending, processed_files, lock,
                   unprocessed, pureVars>>

\* process_file lines 39, 66-75: save raises (the disk is full, the scratch
\* directory is gone); the scratch file is removed.
CbSaveFails(t) ==
    /\ timers[t].pc = "cb_save"
    /\ timers' = [timers EXCEPT ![t] = Finish(@, "error")]
    /\ UNCHANGED <<now, files, events, pending, processed_files, lock,
                   unprocessed, pureVars>>

\* A writer that copies the scratch file over the target in place: a reader
\* meets the target while it is cut short.
ReplacedInPlace(tmp) == [tmp EXCEPT !.data = Truncated]

\* os.replace(tmp_path, file_path): what the target holds afterwards.
Replaced(tmp) == tmp

\* process_file lines 55-59: os.replace succeeds; the observer queues the
\* notification of the change.
CbReplaceOk(t) ==
    /\ timers[t].pc = "cb_replace"
    /\ LET path == timers[t].path
       IN /\ files' = [files EXCEPT ![path] = Replaced(timers[t].tmp)]
          /\ events' = events \cup {path}
          /\ unprocessed' = unprocessed \ {path}
    /\ timers' = [timers EXCEPT ![t].pc = "mp_hash", ![t].tmp = NoFile,
                                ![t].attempt = 0]
    /\ UNCHANGED <<now, pending, processed_files, lock, pureVars>>

\* process_file lines 60-65, 69-75: os.replace raises OSError; after
\* max_replace_retries attempts the write has failed and the scratch file is
\* removed.
CbReplaceFails(t) ==
    /\ timers[t].pc = "cb_replace"
    /\ timers' = [timers EXCEPT ![t] =
          IF RetryAgain(@.attempt, MaxReplaceRetries)
          THEN [@ EXCEPT !.attempt = @ + 1]
          ELSE Finish(@, "failed")]
    /\ UNCHANGED <<now, files, events, pending, processed_files, lock,
                   unprocessed, pureVars>>

\* mark_processed (watcher.py lines 42-43): take the lock, hash the file.
MpReadHash(t) ==
    /\ timers[t].pc = "mp_hash"
    /\ Acquirable(lock)
    /\ lock' = t
    /\ timers' = [timers EXCEPT ![t].pc = "mp_store",
                                ![t].cur_hash =
                                   get_file_hash(files[timers[t].path])]
    /\ UNCHANGED <<now, files, events, pending, processed_files, unprocessed,
                   pureVars>>

\* mark_processed line 43: read the mtime, record the pair, release the
\* lock; process_file returns True.
MpStore(t) ==
    /\ timers[t].pc = "mp_store"
    /\ lock = t
    /\ lock' = Released(t)
    /\ LET path == timers[t].path
       IN processed_files' =
             Put(processed_files, path,
                 <<timers[t].cur_hash, get_file_mtime(files[path])>>)
    /\ timers' = [timers EXCEPT ![t] = Finish(@, "committed")]
    /\ UNCHANGED <<now, files, events, pending, unprocessed, pureVars>>

\* ---- the watcher, running

Init ==
    /\ midi = EmptyFile
    /\ file_path = PathBass
    /\ config = WatchConfig
    /\ applied = ""
    /\ result = NotRun
    /\ WatchInit

TimerStep(t) ==
    \/ Fire(t)
    \/ PfClearPending(t)
    \/ PfExists(t)
    \/ SpReadHash(t)
    \/ SpDecide(t)
    \/ CbRead(t)
    \/ CbReadRaises(t)
    \/ CbHash(t)
    \/ CbSaveOk(t)
    \/ CbSaveFails(t)
    \/ CbReplaceOk(t)
    \/ CbReplaceFails(t)
    \/ MpReadHash(t)
    \/ MpStore(t)

Next ==
    \/ Tick
    \/ \E p \in Paths : ExternalWrite(p) \/ ExternalDelete(p) \/ on_modified(p)
    \/ \E t \in Timers : TimerStep(t)

Spec == Init /\ [][Next]_vars

\* ---- the watcher on a filesystem that can refuse to remove a file

\* process_file lines 47 and 69-75: os.remove(tmp_path) raises (the scratch
\* file is held open by another program, which is also what makes os.replace
\* raise).  On the no-op path the exception of line 47 is caught at line 66;
\* the finally block tries once more and swallows the exception (lines
\* 72-75), so the call returns False and the scratch file stays where it is.
\* This happens after a save that raised or that produced the bytes already
\* on disk, and after the last rejected replace.
CbRemoveFails(t) ==
    /\ timers[t].pc \in {"cb_save", "cb_replace"}
    /\ timers[t].pc = "cb_replace"
          => ~RetryAgain(timers[t].attempt, MaxReplaceRetries)
    /\ timers' = [timers EXCEPT ![t] =
          [Finish(@, IF @.pc = "cb_replace" THEN "failed" ELSE "error")
              EXCEPT !.tmp = timers[t].tmp]]
    /\ UNCHANGED <<now, files, events, pending, processed_files, lock,
                   unprocessed, pureVars>>

NextScratch ==
    \/ \E p \in Paths : ExternalWrite(p) \/ on_modified(p)
    \/ \E t \in Timers : TimerStep(t) \/ CbRemoveFails(t)

SpecScratch == Init /\ [][NextScratch]_vars

\* ---- the watcher under a configuration the pipeline can reject

\* A configuration whose drums rule matches the watched file too and asks for
\* a note length cap_note_lengths does not support.
ErrorConfig ==
    [WatchConfig EXCEPT !.rules.drums.filename_contains = {KeywordBass},
                        !.rules.drums.max_note_length = "1/4"]

InitErrors ==
    /\ midi = EmptyFile
    /\ file_path = PathBass
    /\ config \in {WatchConfig, ErrorConfig}
    /\ applied = ""
    /\ result = NotRun
    /\ WatchInit

NextErrors ==
    \/ Tick
    \/ \E p \in Paths : ExternalWrite(p) \/ on_modified(p)
    \/ \E t \in Timers : TimerStep(t)

SpecErrors == InitErrors /\ [][NextErrors]_vars

\* ---- the initial scan and the watcher under a configuration with ignore lists

\* The names of the folders a path lies under.
Folders(path) ==
    LET slashes == {i \in 1..Len(path) : path[i] = "/"}
        starts == {1} \cup {i + 1 : i \in slashes}
    IN { SubSeq(path, a, b - 1) :
            <<a, b>> \in { <<a, b>> \in starts \X slashes :
                             /\ a <= b
                             /\ \A i \in a..(b - 1) : path[i] # "/" } }

\* scan_midi_files lines 26-35: the tests a listed file has to pass.
Listed(path, ignore_filename_contains, ignore_folders) ==
    /\ \A d \in Folders(path) :
          Lower(d) \notin { Lower(f) : f \in ignore_folders }
    /\ IsMidiPath(Basename(path))
    /\ ~AnyContains(ignore_filename_contains, Lower(Basename(path)))

\* scan_midi_files: the files found under the root (the code returns them
\* sorted; the caller processes each of them).
scan_midi_files(ignore_filename_contains, ignore_folders) ==
    { p \in Paths : /\ files[p].exists
                    /\ Listed(p, ignore_filename_contains, ignore_folders) }

\* Whether the configuration says to leave the path alone.
Ignored(path, cfg) ==
    ~Listed(path, cfg.global_.ignore_filename_contains,
            cfg.global_.ignore_folders)

\* main line 98: scan_midi_files(work_dir), the ignore lists left at their
\* defaults.
ScannedByMain == scan_midi_files({}, {})

\* process_file without a watcher (main line 109), start to end: what the
\* path holds afterwards.  replace_ok says whether os.replace went through.
Committed(f, out, replace_ok) ==
    IF IsRaised(out) \/ ~replace_ok THEN f
    ELSE IF SameContent([sha |-> Save(out)], get_file_hash(f)) THEN f
    ELSE [exists |-> TRUE, data |-> Save(out), mtime |-> now]

ProcessedFile(f, path, cfg, replace_ok) ==
    IF ~Readable(f) THEN f
    ELSE CHOOSE g \in { Committed(f, out, replace_ok) :
                           out \in { process_midi(f.data, path, cfg) } } : TRUE

\* main lines 97-115: the initial scan processes every file it finds; the
\* observer starts afterwards (line 120) and reports changes from then on.
InitialScan ==
    /\ applied = ""
    /\ applied' = "scan"
    /\ \E replace_ok \in BOOLEAN :
       \E found \in { ScannedByMain } :
          files' = [p \in Paths |->
                       IF p \in found
                       THEN ProcessedFile(files[p], p, config, replace_ok)
                       ELSE files[p]]
    /\ events' = {}
    /\ UNCHANGED <<midi, file_path, config, result, now, pending,
                   processed_files, lock, timers, unprocessed>>

\* on_modified once the watcher runs.
Notified(p) == applied = "scan" /\ on_modified(p)

\* A substring and a folder name to ignore.
IgnoredSubstring == <<"s", "s">>

IgnoredFolder == <<"o", "l", "d">>

IgnoreConfig(names, folders) ==
    [WatchConfig EXCEPT !.global_ =
        [strip_to_notes |-> TRUE, force_channel_zero |-> TRUE,
         strip_keep_meta |-> {}, ignore_filename_contains |-> names,
         ignore_folders |-> folders]]

InitIgnore ==
    /\ midi = EmptyFile
    /\ file_path = PathBass
    /\ config \in {IgnoreConfig({}, {}),
                   IgnoreConfig({IgnoredSubstring}, {IgnoredFolder})}
    /\ applied = ""
    /\ result = NotRun
    /\ now = 0
    /\ files \in [Paths -> { [exists |-> TRUE, data |-> NoteFile(0, n),
                              mtime |-> 0] : n \in {0, 12} }]
    /\ events = {}
    /\ pending = EmptyDict
    /\ processed_files = EmptyDict
    /\ lock = 0
    /\ timers = [t \in Timers |-> UnusedTimer]
    /\ unprocessed = {}

NextIgnore ==
    \/ InitialScan
    \/ \E p \in Paths : ExternalWrite(p) \/ Notified(p)
    \/ \E t \in Timers : TimerStep(t)

SpecIgnore == InitIgnore /\ [][NextIgnore]_vars

\* ---- the watcher while older copies of a file are put back

\* Another program puts a copy back at a path and keeps the copy's earlier
\* modification time (a restore from a backup, cp -p, an unpacked archive);
\* the observer queues the notification.
ExternalRestore(p) ==
    \E data \in ExternalData :
    \E mtime \in 0..(now - 1) :
       LET f == [exists |-> TRUE, data |-> data, mtime |-> mtime]
       IN /\ files' = [files EXCEPT ![p] = f]
          /\ events' = events \cup {p}
          /\ unprocessed' = IF DiffersFromRecorded(p, f)
                            THEN unprocessed \cup {p}
                            ELSE unprocessed \ {p}
          /\ UNCHANGED <<now, pending, processed_files, lock, timers, pureVars>>

\* The watcher starts when the clock reads MaxTime; the file it finds is
\* older.
InitRestore ==
    /\ midi = EmptyFile
    /\ file_path = PathBass
    /\ config = WatchConfig
    /\ applied = ""
    /\ result = NotRun
    /\ now = MaxTime
    /\ files = [p \in Paths |->
                  [exists |-> TRUE, data |-> NoteFile(0, 0), mtime |-> 0]]
    /\ events = {}
    /\ pending = EmptyDict
    /\ processed_files = EmptyDict
    /\ lock = 0
    /\ timers = [t \in Timers |-> UnusedTimer]
    /\ unprocessed = {}

NextRestore ==
    \/ \E p \in Paths : ExternalWrite(p) \/ ExternalRestore(p) \/ on_modified(p)
    \/ \E t \in Timers : TimerStep(t)

SpecRestore == InitRestore /\ [][NextRestore]_vars

\* ---- the watcher with its threads scheduled fairly

\* A configuration that leaves the channels alone: the files of ExternalData
\* come out of the pipeline different from one another.
KeepChannelConfig == MakeConfig(TRUE, FALSE, {}, -12, "", "1/8", "", << >>)

InitFair ==
    /\ midi = EmptyFile
    /\ file_path = PathBass
    /\ config = KeepChannelConfig
    /\ applied = ""
    /\ result = NotRun
    /\ WatchInit

NextFair ==
    \/ \E p \in Paths : ExternalWrite(p) \/ on_modified(p)
    \/ \E t \in Timers : TimerStep(t)

\* Every timer thread that can take a step is scheduled in the end
\* (threading.Timer threads are ordinary threads of the interpreter).
Fairness == \A t \in Timers : WF_vars(TimerStep(t))

SpecFair == InitFair /\ [][NextFair]_vars /\ Fairness

\* Messages and tracks held by a file, together.
RECURSIVE CountMessages(_)
CountMessages(tracks) ==
    IF tracks = << >> THEN 0
    ELSE Len(tracks[1]) + CountMessages(Tail(tracks))

FileSize(m) == CountMessages(m.tracks) + Len(m.tracks) - 1

\* The input grows by one message at the end of its last track.
AddMessage(messages) ==
    /\ applied = ""
    /\ FileSize(midi) < MaxLen
    /\ \E msg \in messages :
          midi' = [midi EXCEPT !.tracks[Len(midi.tracks)] = Append(@, msg)]
    /\ UNCHANGED <<file_path, config, applied, result, watchVars>>

\* The input gets one more (empty) track.
NewTrack ==
    /\ applied = ""
    /\ FileSize(midi) < MaxLen
    /\ midi' = [midi EXCEPT !.tracks = Append(@, << >>)]
    /\ UNCHANGED <<file_path, config, applied, result, watchVars>>

PureInit(paths, configs) ==
    /\ midi = EmptyFile
    /\ file_path \in paths
    /\ config \in configs
    /\ applied = ""
    /\ result = NotRun
    /\ WatchInit

\* ---- strip_to_notes on every input

StripMessages ==
    { Message("note_on", 0, 60, 64, d) : d \in {0, 100} }
    \cup { MetaMessage(ty, "", d) :
              ty \in {"control_change", "end_of_track", "set_tempo"},
              d \in {0, 100} }
    \cup { MetaMessage("track_name", "old", 100) }

StripConfigs ==
    { MakeConfig(TRUE, TRUE, keep, 0, "", "1/8", "", << >>) :
         keep \in {{}, {"set_tempo"}} }

ApplyStrip ==
    /\ applied = ""
    /\ applied' = "strip_to_notes"
    /\ result' = strip_to_notes(midi, config.global_.strip_keep_meta)
    /\ UNCHANGED <<midi, file_path, config, watchVars>>

InitStrip == PureInit({PathBass}, StripConfigs)

NextStrip == AddMessage(StripMessages) \/ NewTrack \/ ApplyStrip

SpecStrip == InitStrip /\ [][NextStrip]_vars

\* ---- cap_note_lengths on every input

CapMessages ==
    { Message(ty[1], ch, 60, ty[2], d) :
         ty \in {<<"note_on", 64>>, <<"note_on", 0>>, <<"note_off", 64>>},
         ch \in {0}, d \in {0, 200} }
    \cup { Message(ty[1], 1, 60, ty[2], d) :
         ty \in {<<"note_on", 64>>, <<"note_off", 64>>}, d \in {0, 200} }
    \cup { MetaMessage("end_of_track", "", d) : d \in {0, 200} }

CapConfigs == { MakeConfig(TRUE, TRUE, {}, 0, "", "1/8", "", << >>) }

ApplyCap ==
    /\ applied = ""
    /\ applied' = "cap_note_lengths"
    /\ result' = cap_note_lengths(midi, config.rules.drums.max_note_length)
    /\ UNCHANGED <<midi, file_path, config, watchVars>>

InitCap == PureInit({PathDrums}, CapConfigs)

NextCap == AddMessage(CapMessages) \/ NewTrack \/ ApplyCap

SpecCap == InitCap /\ [][NextCap]_vars

\* ---- process_midi on every input

PipelineMessages ==
    { Message("note_on", ch, 60, 64, 0) : ch \in {0, 1} }
    \cup { Message("note_off", ch, 60, 64, 300) : ch \in {0, 1} }
    \cup { Message("note_on", 0, 5, 64, 0), MetaMessage("control_change", "", 100) }

PipelineConfigs ==
    { MakeConfig(TRUE, TRUE, {}, -12, "Bass", "1/8", "Drums", << >>),
      MakeConfig(FALSE, TRUE, {}, 0, "", "1/8", "",
                 <<WildcardRule(<<7>>, "Pad", "1/8")>>) }

ApplyPipeline ==
    /\ applied = ""
    /\ applied' = "process_midi"
    /\ result' = process_midi(midi, file_path, config)
    /\ UNCHANGED <<midi, file_path, config, watchVars>>

InitPipeline ==
    PureInit({PathBass, PathDrums, PathBoth, PathOther}, PipelineConfigs)

NextPipeline == AddMessage(PipelineMessages) \/ NewTrack \/ ApplyPipeline

SpecPipeline == InitPipeline /\ [][NextPipeline]_vars

\* ---- cap_note_lengths on notes longer than the cap

\* Notes of one pitch on two channels, 0 or 300 ticks apart (the cap is 240).
OrderMessages ==
    { Message(ty, ch, 60, 64, d) :
         ty \in {"note_on", "note_off"}, ch \in {0, 1}, d \in {0, 300} }

NextOrder == AddMessage(OrderMessages) \/ NewTrack \/ ApplyCap

SpecOrder == InitCap /\ [][NextOrder]_vars

\* ---- process_midi on every drums file

DrumsMessages ==
    CapMessages \cup { MetaMessage("control_change", "", d) : d \in {0, 200} }

InitDrums == PureInit({PathDrums}, CapConfigs)

NextDrums == AddMessage(DrumsMessages) \/ NewTrack \/ ApplyPipeline

SpecDrums == InitDrums /\ [][NextDrums]_vars

\* ---- transpose_notes, force_channel_zero, set_track_names on every input

OperatorMessages ==
    { Message("note_on", 0, 5, 64, 0), Message("note_on", 1, 125, 64, 100),
      Message("note_off", 1, 5, 0, 100), MetaMessage("set_tempo", "", 100) }
    \cup { MetaMessage("track_name", "old", d) : d \in {0, 100} }

OperatorConfigs ==
    { MakeConfig(TRUE, TRUE, {}, semi, "Bass", "1/8", "", << >>) :
         semi \in {-12, 7} }

ApplyTranspose ==
    /\ applied = ""
    /\ applied' = "transpose_notes"
    /\ result' = transpose_notes(midi, config.rules.bass.transpose_semitones)
    /\ UNCHANGED <<midi, file_path, config, watchVars>>

ApplyForce ==
    /\ applied = ""
    /\ applied' = "force_channel_zero"
    /\ result' = force_channel_zero(midi)
    /\ UNCHANGED <<midi, file_path, config, watchVars>>

\* set_track_names returns its result and leaves the caller's input as the
\* assignment of line 217 made it.
ApplySetTrackNames ==
    /\ applied = ""
    /\ applied' = "set_track_names"
    /\ result' = set_track_names(midi, config.rules.bass.track_name)
    /\ midi' = SetTrackNamesInput(midi, config.rules.bass.track_name)
    /\ UNCHANGED <<file_path, config, watchVars>>

InitOperators == PureInit({PathBass}, OperatorConfigs)

NextOperators ==
    \/ AddMessage(OperatorMessages)
    \/ NewTrack
    \/ ApplyTranspose
    \/ ApplyForce
    \/ ApplySetTrackNames

SpecOperators == InitOperators /\ [][NextOperators]_vars

\* ------------------------------------------------------------- the claims

\* The indices from i on of the messages of a track that strip_to_notes is
\* to retain, in order.
RECURSIVE KeptIdx(_, _, _)
KeptIdx(track, keep_meta_subtypes, i) ==
    IF i > Len(track) THEN << >>
    ELSE IF track[i].type
               \in {"note_on", "note_off", "end_of_track"} \cup keep_meta_subtypes
    THEN <<i>> \o KeptIdx(track, keep_meta_subtypes, i + 1)
    ELSE KeptIdx(track, keep_meta_subtypes, i + 1)

\* A message without its delta time.
Payload(msg) == [msg EXCEPT !.time = 0]

\* The reference LIFO matching of one track: for every index, the absolute
\* start time of the NoteOn (velocity > 0) its terminator closes, or None.
\* stacks maps (note, channel) to the start times still open.
RECURSIVE RefMatch(_, _, _, _)
RefMatch(track, times, i, stacks) ==
    IF i > Len(track) THEN << >>
    ELSE LET msg == track[i]
             key == <<msg.note, msg.channel>>
             open == Get(stacks, key, << >>)
         IN IF IsStart(msg)
            THEN <<None>> \o RefMatch(track, times, i + 1,
                                      Put(stacks, key, Append(open, times[i])))
            ELSE IF IsTerminator(msg) /\ open # << >>
            THEN <<open[Len(open)]>>
                 \o RefMatch(track, times, i + 1,
                             Put(stacks, key, SubSeq(open, 1, Len(open) - 1)))
            ELSE <<None>> \o RefMatch(track, times, i + 1, stacks)

MatchedStart(track) == RefMatch(track, AbsTimes(track), 1, EmptyDict)

\* Where message i of an input track stands in the output of
\* cap_note_lengths (the sort keeps every message's original index).
OutPos(track, max_len_ticks, i) ==
    LET sorted == SortedAdjusted(track, max_len_ticks)
    IN CHOOSE k \in 1..Len(sorted) : sorted[k][2] = i

CapRan == applied = "cap_note_lengths"

\* C7: after cap_note_lengths, every terminator matched (LIFO, per note and
\* channel) with a start lands at start + min(end - start, maxTicks).
\* (Stated of the calls that return; a call that raises has no output.)
C7_CapDurations ==
    (CapRan /\ ~IsRaised(result)) =>
       \A t \in 1..Len(midi.tracks) :
             LET track == midi.tracks[t]
                 maxTicks == midi.ticks_per_beat \div 2
                 start == MatchedStart(track)
                 end == AbsTimes(track)
                 out == AbsTimes(result.tracks[t])
             IN \A i \in 1..Len(track) :
                   start[i] # None =>
                      out[OutPos(track, maxTicks, i)]
                         = start[i] + Min(end[i] - start[i], maxTicks)

\* C8: cap_note_lengths changes nothing but the absolute time of the
\* terminators of matched pairs longer than maxTicks: same number of
\* messages, same payloads, every other absolute time as in the input.
\* (Stated of the calls that return.)
C8_CapFrame ==
    (CapRan /\ ~IsRaised(result)) =>
       \A t \in 1..Len(midi.tracks) :
             LET track == midi.tracks[t]
                 maxTicks == midi.ticks_per_beat \div 2
                 start == MatchedStart(track)
                 at == AbsTimes(track)
                 out == result.tracks[t]
             IN /\ Len(out) = Len(track)
                /\ \A i \in 1..Len(track) :
                      LET k == OutPos(track, maxTicks, i)
                      IN /\ Payload(out[k]) = Payload(track[i])
                         /\ (start[i] = None \/ at[i] - start[i] <= maxTicks)
                               => AbsTimes(out)[k] = at[i]

\* The messages strip_to_notes is to retain.
Retained(msg, keep_meta_subtypes) ==
    msg.type \in {"note_on", "note_off", "end_of_track"} \cup keep_meta_subtypes

StripRan == applied = "strip_to_notes"

\* C10: strip_to_notes outputs exactly the retained messages of every track,
\* in order, each at the absolute tick it had in the input.
C10_StripPreservesTime ==
    StripRan =>
       /\ Len(result.tracks) = Len(midi.tracks)
       /\ \A t \in 1..Len(midi.tracks) :
             LET track == midi.tracks[t]
                 out == result.tracks[t]
                 kept == KeptIdx(track, config.global_.strip_keep_meta, 1)
             IN /\ Len(out) = Len(kept)
                /\ \A k \in 1..Len(kept) :
                      /\ Payload(out[k]) = Payload(track[kept[k]])
                      /\ AbsTimes(out)[k] = AbsTimes(track)[kept[k]]

\* C10's case: a retained message follows dropped messages that took time.
C10_Witness ==
    /\ StripRan
    /\ C10_StripPreservesTime
    /\ \E t \in 1..Len(midi.tracks) :
          LET track == midi.tracks[t]
          IN \E i \in 2..Len(track) :
                /\ Retained(track[i], config.global_.strip_keep_meta)
                /\ ~Retained(track[i - 1], config.global_.strip_keep_meta)
                /\ track[i - 1].time > 0
                /\ Len(result.tracks[t]) > 0

PipelineRan == applied = "process_midi"

\* C6: the pipeline is idempotent.
C6_PipelineIdempotent ==
    (PipelineRan /\ ~IsRaised(result)) =>
        process_midi(result, file_path, config) = result

\* The pipeline with one filename-rule branch: bass, else drums, else
\* wildcard.
ExclusivePipeline(m, path, cfg) ==
    LET s1 == StripStep(m, cfg)
        s2 == IF BassMatch(path, cfg) THEN BassBranch(s1, path, cfg)
              ELSE IF DrumsMatch(path, cfg) THEN DrumsBranch(s1, path, cfg)
              ELSE WildcardBranch(s1, path, cfg)
    IN IF IsRaised(s2) THEN s2 ELSE ForceStep(s2, cfg)

\* C9: process_midi applies exactly one filename-rule branch; a name that
\* matches bass and drums gets the bass branch only.
C9_OneBranch ==
    PipelineRan => result = ExclusivePipeline(midi, file_path, config)

\* ---- the watcher

\* Timer t takes the step that ends should_process.
Decides(t) == timers[t].pc = "sp_decide" /\ timers'[t].pc # "sp_decide"

\* What should_process of timer t has before it when it decides: the path is
\* recorded, the fingerprint it read is the recorded one and the file's
\* modification time is within the window of the recorded one.
LooksSelfWritten(t) ==
    LET path == timers[t].path
    IN /\ timers[t].pc = "sp_decide"
       /\ path \in DOMAIN processed_files
       /\ timers[t].cur_hash = processed_files[path][1]
       /\ Abs(get_file_mtime(files[path]) - processed_files[path][2])
             < RecencyWindow

\* C1: when a debounce timer's should_process finds the path recorded, the
\* fingerprint equal to the recorded one and the modification time within
\* the recency window of the recorded one, the run ends there: the callback
\* is not invoked and the watch state is left as it was.
C1_SelfWriteSuppressed ==
    [][\A t \in Timers :
          (LooksSelfWritten(t) /\ Decides(t)) =>
             /\ timers'[t].pc = "done"
             /\ timers'[t].outcome = "suppressed"
             /\ processed_files' = processed_files
             /\ files' = files]_vars

\* A call has committed a replacement and marked the path, and the timer of
\* the notification is in should_process with the file as the call left it.
C1_Witness ==
    \E t \in Timers, u \in Timers :
       /\ timers[t].outcome = "committed"
       /\ timers[u].path = timers[t].path
       /\ LooksSelfWritten(u)
       /\ get_file_hash(files[timers[u].path]) = timers[u].cur_hash
       /\ files[timers[u].path].data = Save(NoteFile(0, 0))

\* Nothing is in flight for path p: every notification has been handed over,
\* every timer for p has been cancelled before firing or has run to its end.
Quiescent(p) ==
    /\ p \notin events
    /\ lock = 0
    /\ \A t \in Timers :
          timers[t].path = p =>
             \/ timers[t].pc = "done"
             \/ timers[t].pc = "waiting" /\ timers[t].cancelled

\* C2: once the notifications for a path have stopped and its timers have
\* run, a complete file that is still there does not hold an external edit
\* (one whose fingerprint differed from the recorded one) that no callback
\* was invoked on or read.
C2_ExternalEditProcessed ==
    \A p \in Paths :
       (Quiescent(p) /\ Readable(files[p])) => p \notin unprocessed

\* C3: a timer that on_modified has cancelled does not act: it stays
\* waiting, and only the timer that replaced it runs _process_file.
C3_CancelledNeverActs ==
    \A t \in Timers : timers[t].cancelled => timers[t].pc = "waiting"

\* The timers whose callback is in progress on path p.
InCallback(p) ==
    { t \in Timers : timers[t].path = p /\ timers[t].pc \in CallbackPcs }

\* C4: at most one invocation of the callback is in progress for a path.
C4_OneCallbackPerPath ==
    \A p \in Paths : Cardinality(InCallback(p)) <= 1

\* Timer t's process_file, having read the file, returns.
Returns(t) ==
    /\ timers[t].pc \in {"cb_hash", "cb_save", "cb_replace", "mp_store"}
    /\ timers'[t].pc = "done"

\* C5 as stated: every process_file call that has read its file ends as a
\* no-op or as a committed replacement.
C5_NoopOrCommitted ==
    [][\A t \in Timers :
          Returns(t) => timers'[t].outcome \in {"noop", "committed"}]_vars

\* The file process_file's save leaves at the scratch path.
Saved(t) == [exists |-> TRUE, data |-> Save(timers[t].midi), mtime |-> now]

\* One step of timer t's process_file leaves the target, the notifications
\* and the watch state alone.
Untouched == UNCHANGED <<files, events, processed_files>>

\* C5, amended: a process_file call that has read its file ends as a no-op,
\* as a committed replacement or as a reported failure.  It ends as a no-op
\* only when the saved file has the fingerprint read from the target, and
\* then, as on a failure, the step changes neither the target nor the
\* notifications nor the watch state; it goes on to replace only when the
\* fingerprints differ; the replace installs the whole saved file and is
\* notified; and no step of the engine changes the target in another way,
\* so a reader never meets a file the engine has cut short.
C5_ChangeAwareCommit ==
    [][/\ \A t \in Timers :
            /\ Returns(t) =>
                  timers'[t].outcome \in {"noop", "committed", "error", "failed"}
            /\ (Returns(t) /\ timers'[t].outcome = "noop") =>
                  /\ timers[t].pc = "cb_save"
                  /\ get_file_hash(Saved(t)) = timers[t].original_hash
                  /\ Untouched
            /\ (Returns(t) /\ timers'[t].outcome \in {"error", "failed"}) =>
                  Untouched
            /\ (Returns(t) /\ timers'[t].outcome = "committed") =>
                  /\ timers[t].pc = "mp_store"
                  /\ timers[t].path \in DOMAIN processed_files'
                  /\ files' = files
            /\ (timers[t].pc = "cb_save" /\ timers'[t].pc = "cb_replace") =>
                  /\ get_file_hash(timers'[t].tmp) # timers[t].original_hash
                  /\ Readable(timers'[t].tmp)
                  /\ Untouched
       /\ (files' # files /\ timers' # timers) =>
             \E t \in Timers :
                /\ timers[t].pc = "cb_replace"
                /\ timers'[t].pc = "mp_hash"
                /\ Readable(timers[t].tmp)
                /\ files' = [files EXCEPT ![timers[t].path] = timers[t].tmp]
                /\ timers[t].path \in events']_vars

\* One call has committed a replacement, which is on disk whole, and another
\* has ended as a no-op.
C5_Witness ==
    \E t \in Timers, u \in Timers :
       /\ timers[t].outcome = "committed"
       /\ timers[u].outcome = "noop"
       /\ Readable(files[timers[t].path])
       /\ files[timers[t].path].data = Save(NoteFile(0, 0))

\* ---- the operators

TransposeRan == applied = "transpose_notes"

\* What the claim has transpose_notes make of one message.
Transposed(msg, semitones) ==
    IF IsNote(msg)
    THEN [msg EXCEPT !.note = Max(0, Min(127, msg.note + semitones))]
    ELSE msg

\* C11: transpose_notes gives every note message the note
\* max(0, min(127, note + semitones)) and keeps its type, channel, velocity
\* and delta time; every other message is the input's; tracks and messages
\* keep their number and order.
C11_Transpose ==
    TransposeRan =>
       /\ result.ticks_per_beat = midi.ticks_per_beat
       /\ Len(result.tracks) = Len(midi.tracks)
       /\ \A t \in 1..Len(midi.tracks) :
             /\ Len(result.tracks[t]) = Len(midi.tracks[t])
             /\ \A i \in 1..Len(midi.tracks[t]) :
                   result.tracks[t][i] =
                      Transposed(midi.tracks[t][i],
                                 config.rules.bass.transpose_semitones)

\* transpose_notes has run on a track holding a note that leaves the range
\* at the bottom, one that leaves it at the top and a message that is no note.
C11_Witness ==
    /\ TransposeRan
    /\ C11_Transpose
    /\ \E t \in 1..Len(midi.tracks) :
          LET track == midi.tracks[t]
              s == config.rules.bass.transpose_semitones
          IN /\ \E i \in 1..Len(track) : ~IsNote(track[i])
             /\ \E i \in 1..Len(track) :
                   /\ IsNote(track[i])
                   /\ track[i].note + s \notin 0..127
                   /\ result.tracks[t][i].note \in {0, 127}
                   /\ result.tracks[t][i].time = track[i].time

SetTrackNamesRan == applied = "set_track_names"

\* The places of the track-name messages of a track.
TrackNameIdx(track) == { i \in 1..Len(track) : track[i].type = "track_name" }

\* C12: on a track that has track-name messages set_track_names changes the
\* text of the first of them and nothing else: every other message, a later
\* track-name among them, is the input's.
C12_OnlyFirstTrackName ==
    SetTrackNamesRan =>
       \A t \in 1..Len(midi.tracks) :
          LET track == midi.tracks[t]
              names == TrackNameIdx(track)
          IN names # {} =>
                LET first == CHOOSE i \in names : \A j \in names : i <= j
                IN result.tracks[t] =
                      [track EXCEPT ![first].name = config.rules.bass.track_name]

\* C13: after strip_to_notes every output track ends with an end_of_track meta
\* message, also when the input track is empty or holds neither notes nor an
\* end_of_track message.
C13_StripEndsWithEndOfTrack ==
    StripRan =>
        \A t \in 1..Len(result.tracks) :
            /\ Len(result.tracks[t]) > 0
            /\ result.tracks[t][Len(result.tracks[t])].type = "end_of_track"

\* C14: no operator mutates its input: when transpose_notes,
\* force_channel_zero or set_track_names returns, every message of the input
\* file (type, payload and delta time) is what it was before the call.
C14_InputUnchanged ==
    [][applied' # applied => midi' = midi]_vars

\* C15: retries are bounded.  A replace that the filesystem keeps rejecting is
\* attempted at most MaxReplaceRetries times; the call then reports failure
\* and that step changes neither the files nor the recorded self-writes.  An
\* unreadable file is read at most MaxReadRetries times before it is skipped.
\* The field attempt counts the failed attempts of the running loop.
GaveUp(t, outcome) ==
    /\ timers[t].pc \in {"cb_read", "cb_replace"}
    /\ timers'[t].pc = "done"
    /\ timers'[t].outcome = outcome

C15_BoundedRetries ==
    [][\A t \in Timers :
          /\ timers'[t].pc = "cb_replace"
                => timers'[t].attempt < MaxReplaceRetries
          /\ timers'[t].pc = "cb_read"
                => timers'[t].attempt < MaxReadRetries
          /\ GaveUp(t, "failed")
                => /\ timers[t].attempt = MaxReplaceRetries - 1
                   /\ files' = files
                   /\ processed_files' = processed_files
          /\ GaveUp(t, "skipped")
                => /\ timers[t].attempt = MaxReadRetries - 1
                   /\ files' = files]_vars

C15_Witness ==
    \E t \in Timers : timers[t].pc = "done" /\ timers[t].outcome = "failed"

\* C16: scratch files never persist: when process_file has returned (no
\* change, commit, exhausted replace retries, or an exception while saving),
\* the scratch file it created no longer exists.
C16_ScratchRemoved ==
    \A t \in Timers : timers[t].pc = "done" => ~timers[t].tmp.exists

\* C17: per-file errors are contained.  A parse failure, an unsupported
\* max_note_length or a write failure makes process_file return (outcome
\* skipped, error or failed) in a step that leaves every file as it was, and
\* afterwards the thread neither holds the lock nor is the pending timer of
\* any path, so a later notification starts a new timer.
ErrorOutcomes == {"skipped", "error", "failed"}

C17_ErrorsContained ==
    [][\A t \in Timers :
          /\ timers'[t].pc = "done" /\ timers'[t].outcome \in ErrorOutcomes
          => /\ timers[t].pc # "done" => files' = files
             /\ lock' # t
             /\ \A p \in DOMAIN pending' : pending'[p] # t]_vars

\* Under the configuration the pipeline rejects, one call has ended in an
\* error and a later timer of the same path has got as far as the callback.
C17_Witness ==
    /\ config = ErrorConfig
    /\ \E t, u \in Timers :
          /\ t < u
          /\ timers[t].pc = "done" /\ timers[t].outcome = "error"
          /\ timers[u].path = timers[t].path
          /\ timers[u].pc = "cb_hash"

\* C18: a file whose name contains a configured ignore substring, or that
\* lies under a configured ignore folder, is never read, transformed or
\* rewritten: it is not among the files the initial scan processes, and no
\* timer thread runs the callback on it.
C18_IgnoredNeverProcessed ==
    \A p \in Paths :
       Ignored(p, config)
       => /\ applied = "scan" => p \notin ScannedByMain
          /\ \A t \in Timers :
                timers[t].path = p => timers[t].pc \notin CallbackPcs

\* C18, the watcher alone: no timer thread runs the callback on an ignored
\* file.
IgnoredNeverInCallback ==
    \A p \in Paths :
       Ignored(p, config)
       => \A t \in Timers :
             timers[t].path = p => timers[t].pc \notin CallbackPcs

\* C19: drums end to end (strip, cap at ticks_per_beat / 2, force channel
\* zero): in the output of process_midi every input note, a start matched
\* LIFO per note and channel with its terminator, that lasted longer than
\* the cap lasts exactly the cap, and every other note lasts what it lasted.
\* (Stated of the calls that return.)
C19_DrumsDurations ==
    (PipelineRan /\ ~IsRaised(result)) =>
       \A t \in 1..Len(midi.tracks) :
             LET track == midi.tracks[t]
                 kept == KeptIdx(track, {}, 1)
                 stripped == strip_to_notes(midi, {}).tracks[t]
                 maxTicks == midi.ticks_per_beat \div 2
                 start == MatchedStart(track)
                 end == AbsTimes(track)
                 out == AbsTimes(result.tracks[t])
             IN \A k \in 1..Len(kept) :
                   start[kept[k]] # None =>
                      out[OutPos(stripped, maxTicks, k)]
                         = start[kept[k]]
                           + Min(end[kept[k]] - start[kept[k]], maxTicks)

\* C20: suppression needs both conditions.  should_process ends without the
\* callback only when the path is recorded, the fingerprint equals the
\* recorded one and the modification time is within the recency window of
\* the recorded one, in either direction; otherwise it records the pair it
\* read and the callback is invoked.
C20_SuppressionNeedsBoth ==
    [][\A t \in Timers :
          (Decides(t) /\ ~LooksSelfWritten(t)) =>
             /\ timers'[t].pc = "cb_read"
             /\ processed_files'[timers[t].path]
                   = <<timers[t].cur_hash,
                       get_file_mtime(files[timers[t].path])>>]_vars

\* C21: delta times stay well formed under cap_note_lengths.  In every output
\* track the messages stand in the order of (adjusted absolute time, original
\* index), every delta time is non-negative and is the difference between the
\* message's adjusted absolute time and its predecessor's, the first one's
\* being its absolute time.  (Stated of the calls that return.)
C21_WellFormedDeltas ==
    (CapRan /\ ~IsRaised(result)) =>
       \A t \in 1..Len(midi.tracks) :
          LET sorted == SortedAdjusted(midi.tracks[t],
                                       midi.ticks_per_beat \div 2)
              out == result.tracks[t]
          IN /\ Len(out) = Len(sorted)
             /\ \A k \in 1..Len(out) :
                   /\ out[k].time >= 0
                   /\ out[k].time
                         = sorted[k][1]
                           - (IF k = 1 THEN 0 ELSE sorted[k - 1][1])
                   /\ k > 1 =>
                         \/ sorted[k - 1][1] < sorted[k][1]
                         \/ /\ sorted[k - 1][1] = sorted[k][1]
                            /\ sorted[k - 1][2] < sorted[k][2]

\* Two terminators were shortened and land on the same tick.
C21_Witness ==
    /\ CapRan /\ ~IsRaised(result)
    /\ \E t \in 1..Len(midi.tracks) :
          LET sorted == SortedAdjusted(midi.tracks[t],
                                       midi.ticks_per_beat \div 2)
              at == AbsTimes(midi.tracks[t])
          IN \E k \in 1..Len(sorted), l \in 1..Len(sorted) :
                /\ k < l
                /\ sorted[k][1] = sorted[l][1]
                /\ sorted[k][1] < at[sorted[k][2]]
                /\ sorted[l][1] < at[sorted[l][2]]

\* A shortened terminator stands before a message that came before it.
MovedBeforeEarlier ==
    /\ CapRan /\ ~IsRaised(result)
    /\ \E t \in 1..Len(midi.tracks) :
          LET sorted == SortedAdjusted(midi.tracks[t],
                                       midi.ticks_per_beat \div 2)
          IN \E k \in 1..Len(sorted), l \in 1..Len(sorted) :
                k < l /\ sorted[k][2] > sorted[l][2]

\* C22: watch-state mutual exclusion.  processed_files changes only in a step
\* of the timer thread that holds the lock (should_process, mark_processed),
\* pending changes only in a critical section entered with the lock free
\* (on_modified, _process_file), and a held lock changes hands only by its
\* holder releasing it: no thread enters while another is inside.
C22_WatchStateUnderLock ==
    [][/\ processed_files' # processed_files
          => \E t \in Timers :
                /\ lock = t
                /\ timers[t].pc \in {"sp_decide", "mp_store"}
                /\ timers'[t] # timers[t]
       /\ pending' # pending => lock = 0 /\ lock' = 0
       /\ (lock # 0 /\ lock' # lock)
          => lock' = 0 /\ timers'[lock] # timers[lock]]_vars

\* A timer thread is inside mark_processed while a notification and another
\* timer thread wait for the lock.
C22_Witness ==
    \E t \in Timers, u \in Timers :
       /\ lock = t
       /\ timers[t].pc = "mp_store"
       /\ timers[u].pc \in {"pf_clear", "sp_hash"}
       /\ events # {}

\* C23: no lost external update.  The bytes process_file commits to a path
\* are the transformation of the bytes that were on the path immediately
\* before the replace (stated of a complete file on the path).
Commits(t) == timers[t].pc = "cb_replace" /\ timers'[t].pc = "mp_hash"

C23_NoLostUpdate ==
    [][\A t \in Timers :
          Commits(t) =>
             \E before \in { files[timers[t].path] } :
                Readable(before) =>
                   files'[timers[t].path].data
                      \in { Save(out) :
                               out \in { process_midi(before.data,
                                                      timers[t].path,
                                                      config) } }]_vars

\* C24: pending-timer tracking.  A path has at most one timer that is started,
\* not cancelled and not yet run, and that timer is the one the pending map
\* holds for the path (so a running timer has not removed the entry of a
\* newer timer).
Armed(p) ==
    { t \in Timers : /\ timers[t].path = p
                     /\ timers[t].pc = "waiting"
                     /\ ~timers[t].cancelled }

C24_PendingTracksTimer ==
    \A p \in Paths :
       /\ Cardinality(Armed(p)) <= 1
       /\ \A t \in Armed(p) : p \in DOMAIN pending /\ pending[p] = t

\* C25: deadlock freedom.  No timer thread holds the lock while its callback
\* runs (from the read of the file up to the call of mark_processed), and
\* every fired timer's _process_file run comes to its end.
C25_NoDeadlock ==
    /\ [](\A t \in Timers :
             timers[t].pc \in CallbackPcs \ {"mp_store"} => lock # t)
    /\ \A t \in Timers :
          (timers[t].pc \in ActingPcs) ~> (timers[t].pc = "done")

\* A callback has committed and waits in mark_processed for the lock that
\* another timer thread holds in should_process.
C25_Witness ==
    \E t \in Timers, u \in Timers :
       /\ timers[t].pc = "mp_hash"
       /\ lock = u
       /\ timers[u].pc = "sp_decide"

====
